---------------------------- MODULE Spec2Model ----------------------------
(***************************************************************************)
(* A model of the hl7 package: Message construction (NewMessage), the      *)
(* segment tokenizer (ReadSegment), the segment index (Parse, GetSegment), *)
(* single-value lookup (Find, Get) and the value binder (Unmarshal).       *)
(*                                                                         *)
(* Byte strings are sequences of byte values (0..255).  A Message is a     *)
(* record with the fields of the Go struct; its reader is the number of    *)
(* bytes of the input already consumed, its lock is 0 (unlocked) or the    *)
(* id of the goroutine that holds it.                                      *)
(***************************************************************************)
EXTENDS Integers, Sequences, FiniteSets, TLC

(***************************************************************************)
(* Bytes.                                                                  *)
(***************************************************************************)
CR == 13
LF == 10

ASCII ==
  [c \in {"TAB", "SP", "&", ".", "0", "1", "2", "A", "B", "E", "F", "H",
          "M", "R", "S", "T", "\\", "^", "|", "~"} |->
     CASE c = "TAB" -> 9
       [] c = "SP" -> 32
       [] c = "&" -> 38
       [] c = "." -> 46
       [] c = "0" -> 48
       [] c = "1" -> 49
       [] c = "2" -> 50
       [] c = "A" -> 65
       [] c = "B" -> 66
       [] c = "E" -> 69
       [] c = "F" -> 70
       [] c = "H" -> 72
       [] c = "M" -> 77
       [] c = "R" -> 82
       [] c = "S" -> 83
       [] c = "T" -> 84
       [] c = "\\" -> 92
       [] c = "^" -> 94
       [] c = "|" -> 124
       [] c = "~" -> 126]

\* The byte string spelled by a tuple of character names.
Str(cs) == [i \in 1..Len(cs) |-> ASCII[cs[i]]]

\* unicode.IsSpace(rune(b)) for a byte b: the Latin-1 white space.
IsSpace(b) == b \in {9, 10, 11, 12, 13, 32, 133, 160}

(***************************************************************************)
(* Bounds of the model.                                                    *)
(***************************************************************************)
MaxBody == 3       \* bytes that follow the 8 header bytes of an input
MaxCalls == 5      \* ReadSegment calls made on one Message
MaxParses == 2     \* Parse calls made on one Message
MaxFields == 2     \* fields of a record given to Unmarshal
NumThreads == 2    \* goroutines that read one Message concurrently
MaxReads == 4      \* ReadSegment calls the goroutines make in all

(***************************************************************************)
(* Inputs.                                                                 *)
(***************************************************************************)
BodyAlphabet == {CR, LF, ASCII["SP"], ASCII["|"], ASCII["A"]}

Bodies == UNION {[1..n -> BodyAlphabet] : n \in 0..MaxBody}

StdHeader == Str(<<"M", "S", "H", "|", "^", "~", "\\", "&">>)
DotHeader == Str(<<"M", "S", "H", ".", ".", ".", ".", ".">>)
\* blank lines and leading white space inside the first 8 bytes
OddHeader == <<ASCII["SP"], CR, LF, ASCII["A"], ASCII["|"], ASCII["SP"], CR, LF>>
BlankHeader == <<ASCII["SP"], CR, LF, LF, CR, ASCII["TAB"], ASCII["SP"], CR>>

Headers == {StdHeader, DotHeader, OddHeader, BlankHeader}

\* Buffers NewMessage accepts, and buffers too short for it.
LongBuffers == {h \o b : h \in Headers, b \in Bodies}
ShortBuffers == {SubSeq(h, 1, n) : h \in {StdHeader, OddHeader}, n \in 0..7}

Buffer(bytes) == [isNil |-> FALSE, bytes |-> bytes]
NilBuffer == [isNil |-> TRUE, bytes |-> <<>>]

Buffers == {Buffer(b) : b \in LongBuffers \cup ShortBuffers} \cup {NilBuffer}

VARIABLES
  data,      \* the byte slice given to NewMessage
  m,         \* the Message
  built,     \* what NewMessage returned: "none" before the call, its error after
  results,   \* the outcomes of the caller's ReadSegment calls, in call order
  consumed,  \* segments taken from the reader so far (by ReadSegment or Parse)
  parses,    \* Parse calls made
  parseSkip, \* consumed, as it was when the last Parse began
  out,       \* the last Parse, Find or Unmarshal and its outcome
  pc,        \* per goroutine: its place in ReadSegment
  buf,       \* per goroutine: ReadSegment's local buf
  got,       \* per goroutine: the outcomes of its ReadSegment calls
  order      \* the segments returned by all goroutines, in unlock order

vars == <<data, m, built, results, consumed, parses, parseSkip, out,
          pc, buf, got, order>>

Threads == 1..NumThreads

(***************************************************************************)
(* NewMessage.                                                             *)
(***************************************************************************)
EmptyIndex == [t \in {} |-> <<>>]

NilMessage ==
  [isNil |-> TRUE, segments |-> EmptyIndex, reader |-> 0, lock |-> 0,
   fieldSep |-> 0, compSep |-> 0, subCompSep |-> 0, repeat |-> 0, escape |-> 0]

\* A bug NewMessage could have: the length test passed, a Message returned
\* beside the error.
NewMessageLeaky(d) ==
  IF Len(d.bytes) < 8
    THEN [msg |-> [NilMessage EXCEPT !.isNil = FALSE], err |-> "EOF"]
    ELSE [msg |-> [isNil |-> FALSE, segments |-> EmptyIndex, reader |-> 0,
                   lock |-> 0,
                   fieldSep |-> d.bytes[4], compSep |-> d.bytes[5],
                   repeat |-> d.bytes[6], escape |-> d.bytes[7],
                   subCompSep |-> d.bytes[8]],
          err |-> "nil"]

\* A bug NewMessage could have: two roles read from each other's offset.
NewMessageSwapped(d) ==
  IF Len(d.bytes) < 8
    THEN [msg |-> NilMessage, err |-> "EOF"]
    ELSE [msg |-> [isNil |-> FALSE, segments |-> EmptyIndex, reader |-> 0,
                   lock |-> 0,
                   fieldSep |-> d.bytes[4], compSep |-> d.bytes[5],
                   repeat |-> d.bytes[6], escape |-> d.bytes[8],
                   subCompSep |-> d.bytes[7]],
          err |-> "nil"]

\* NewMessage(data): the Message and the error it returns.  data[i] of the
\* source is d.bytes[i + 1].
NewMessage(d) ==
  IF Len(d.bytes) < 8
    THEN [msg |-> NilMessage, err |-> "EOF"]
    ELSE [msg |-> [isNil |-> FALSE, segments |-> EmptyIndex, reader |-> 0,
                   lock |-> 0,
                   fieldSep |-> d.bytes[4], compSep |-> d.bytes[5],
                   repeat |-> d.bytes[6], escape |-> d.bytes[7],
                   subCompSep |-> d.bytes[8]],
          err |-> "nil"]

(***************************************************************************)
(* Segment.                                                                *)
(***************************************************************************)
newSegment(fieldSep, compSep, subCompSep, repeat, escape, bytes) ==
  [fieldSep |-> fieldSep, compSep |-> compSep, subCompSep |-> subCompSep,
   repeat |-> repeat, escape |-> escape, data |-> bytes]

ZeroSegment == newSegment(0, 0, 0, 0, 0, <<>>)

\* The position of the first sep in s at or after i, Len(s) + 1 when none.
RECURSIVE IndexFrom(_, _, _)
IndexFrom(s, sep, i) ==
  IF i > Len(s) THEN Len(s) + 1
  ELSE IF s[i] = sep THEN i
  ELSE IndexFrom(s, sep, i + 1)

\* bytes.Split(s, sep): the pieces of s between the occurrences of sep.
RECURSIVE Split(_, _)
Split(s, sep) ==
  LET i == IndexFrom(s, sep, 1)
  IN IF i > Len(s) THEN <<s>>
     ELSE <<SubSeq(s, 1, i - 1)>> \o Split(SubSeq(s, i + 1, Len(s)), sep)

\* Segment.Type: the text of field 0, the bytes before the first field
\* separator.
Type(seg) == Split(seg.data, seg.fieldSep)[1]

(***************************************************************************)
(* ReadSegment.                                                            *)
(***************************************************************************)
\* A bug the loop could have: leading white space is not skipped.
ReadByteNoSkip(bytes, pos, b) ==
  IF pos >= Len(bytes) THEN [pos |-> pos, buf |-> b, brk |-> TRUE]
  ELSE LET c == bytes[pos + 1]
       IN IF c = CR \/ c = LF
            THEN [pos |-> pos + 1, buf |-> b, brk |-> TRUE]
            ELSE [pos |-> pos + 1, buf |-> Append(b, c), brk |-> FALSE]

\* One iteration of ReadSegment's loop, with the reader at pos and b
\* accumulated: the reader and buf after it, and whether the loop ends.
ReadByte(bytes, pos, b) ==
  IF pos >= Len(bytes) THEN [pos |-> pos, buf |-> b, brk |-> TRUE]
  ELSE LET c == bytes[pos + 1]
       IN IF Len(b) = 0 /\ IsSpace(c)
            THEN [pos |-> pos + 1, buf |-> b, brk |-> FALSE]
          ELSE IF c = CR \/ c = LF
            THEN [pos |-> pos + 1, buf |-> b, brk |-> TRUE]
            ELSE [pos |-> pos + 1, buf |-> Append(b, c), brk |-> FALSE]

\* The loop, run to its break.
RECURSIVE ReadLoop(_, _, _)
ReadLoop(bytes, pos, b) ==
  LET s == ReadByte(bytes, pos, b)
  IN IF s.brk THEN s ELSE ReadLoop(bytes, s.pos, s.buf)

\* A bug ReadSegment could have: the empty buf reported with another error.
ReadResultOtherError(msg, b) ==
  IF Len(b) = 0
    THEN [seg |-> ZeroSegment, err |-> "unexpected EOF"]
    ELSE [seg |-> newSegment(msg.fieldSep, msg.compSep, msg.subCompSep,
                             msg.repeat, msg.escape, b),
          err |-> "nil"]

\* What ReadSegment returns for the buf its loop ended with.
ReadResult(msg, b) ==
  IF Len(b) = 0
    THEN [seg |-> ZeroSegment, err |-> "EOF"]
    ELSE [seg |-> newSegment(msg.fieldSep, msg.compSep, msg.subCompSep,
                             msg.repeat, msg.escape, b),
          err |-> "nil"]

\* A whole ReadSegment call by a single caller: the Message after it (the
\* lock is taken and released inside the call) and what is returned.
ReadSegmentCall(msg, bytes) ==
  LET s == ReadLoop(bytes, msg.reader, <<>>)
      r == ReadResult(msg, s.buf)
  IN [msg |-> [msg EXCEPT !.reader = s.pos], seg |-> r.seg, err |-> r.err]

(***************************************************************************)
(* Parse and GetSegment.                                                   *)
(***************************************************************************)
\* A bug Parse could have: the segment replaces its tag's entry.
IndexOverwrite(index, stype, seg) ==
  IF stype \in DOMAIN index
    THEN [index EXCEPT ![stype] = <<seg>>]
    ELSE index @@ (stype :> <<seg>>)

\* m.segments[stype] = append(m.segments[stype], segment)
IndexAppend(index, stype, seg) ==
  IF stype \in DOMAIN index
    THEN [index EXCEPT ![stype] = Append(@, seg)]
    ELSE index @@ (stype :> <<seg>>)

\* Parse's loop: ReadSegment until io.EOF, each segment filed under its
\* type.  n counts the segments read.
RECURSIVE ParseLoop(_, _, _)
ParseLoop(msg, bytes, n) ==
  LET r == ReadSegmentCall(msg, bytes)
  IN IF r.err = "EOF"
       THEN [msg |-> r.msg, err |-> "nil", n |-> n]
     ELSE IF r.err # "nil"
       THEN [msg |-> r.msg, err |-> r.err, n |-> n]
       ELSE ParseLoop([r.msg EXCEPT
                         !.segments = IndexAppend(@, Type(r.seg), r.seg)],
                      bytes, n + 1)

\* A bug Parse could have: the index is not reset.
ParseNoReset(msg, bytes) == ParseLoop(msg, bytes, 0)

Parse(msg, bytes) ==
  ParseLoop([msg EXCEPT !.segments = EmptyIndex], bytes, 0)

\* GetSegment(id): m.segments[id] (the nil slice for a missing key), nil.
GetSegment(msg, id) ==
  [segs |-> IF id \in DOMAIN msg.segments THEN msg.segments[id] ELSE <<>>,
   err |-> "nil"]

(***************************************************************************)
(* The operations on one Message, by a single caller.                      *)
(***************************************************************************)
NoOutcome == [op |-> "none"]

Idle ==
  /\ pc = [t \in Threads |-> "idle"]
  /\ buf = [t \in Threads |-> <<>>]
  /\ got = [t \in Threads |-> <<>>]
  /\ order = <<>>

Fresh ==
  /\ m = NilMessage
  /\ built = "none"
  /\ results = <<>>
  /\ consumed = 0
  /\ parses = 0
  /\ parseSkip = 0
  /\ out = NoOutcome
  /\ Idle

Init ==
  /\ data \in Buffers
  /\ Fresh

Construct ==
  /\ built = "none"
  /\ LET r == NewMessage(data)
     IN /\ m' = r.msg
        /\ built' = r.err
  /\ UNCHANGED <<data, results, consumed, parses, parseSkip, out,
                 pc, buf, got, order>>

DoReadSegment ==
  /\ built = "nil"
  /\ Len(results) < MaxCalls
  /\ LET r == ReadSegmentCall(m, data.bytes)
     IN /\ m' = r.msg
        /\ results' = Append(results,
                             [seg |-> r.seg, err |-> r.err,
                              from |-> m.reader, to |-> r.msg.reader])
        /\ consumed' = IF r.err = "nil" THEN consumed + 1 ELSE consumed
  /\ UNCHANGED <<data, built, parses, parseSkip, out, pc, buf, got, order>>

DoParse ==
  /\ built = "nil"
  /\ parses < MaxParses
  /\ LET p == Parse(m, data.bytes)
     IN /\ m' = p.msg
        /\ consumed' = consumed + p.n
  /\ parses' = parses + 1
  /\ parseSkip' = consumed
  /\ out' = [op |-> "Parse"]
  /\ UNCHANGED <<data, built, results, pc, buf, got, order>>

Next ==
  \/ Construct
  \/ DoReadSegment
  \/ DoParse

Spec == Init /\ [][Next]_vars

(***************************************************************************)
(* Segment.GetSubComponent and NewLocation.                                *)
(***************************************************************************)
\* The escape sequence at the head of s (escape, letter, escape) for a
\* literal delimiter, as the byte it stands for; 0 when there is none.
EscapedByte(seg, s) ==
  IF Len(s) >= 3 /\ s[1] = seg.escape /\ s[3] = seg.escape
    THEN CASE s[2] = ASCII["F"] -> seg.fieldSep
           [] s[2] = ASCII["S"] -> seg.compSep
           [] s[2] = ASCII["T"] -> seg.subCompSep
           [] s[2] = ASCII["R"] -> seg.repeat
           [] s[2] = ASCII["E"] -> seg.escape
           [] OTHER -> 0
    ELSE 0

RECURSIVE Unescape(_, _)
Unescape(seg, s) ==
  IF Len(s) = 0 THEN <<>>
  ELSE IF EscapedByte(seg, s) # 0
    THEN <<EscapedByte(seg, s)>> \o Unescape(seg, SubSeq(s, 4, Len(s)))
    ELSE <<s[1]>> \o Unescape(seg, SubSeq(s, 2, Len(s)))

OutOfRange(level) == [ok |-> FALSE, level |-> level, text |-> <<>>]
Found(text) == [ok |-> TRUE, level |-> "none", text |-> text]

\* GetSubComponent(fieldIdx, repIdx, compIdx, subCompIdx): the addressed
\* text, or the level whose index is out of range.
GetSubComponent(seg, fieldIdx, repIdx, compIdx, subCompIdx) ==
  LET fields == Split(seg.data, seg.fieldSep)
  IN IF fieldIdx = 0 THEN Found(fields[1])
     ELSE IF fieldIdx + 1 > Len(fields) THEN OutOfRange("field")
     ELSE IF fieldIdx = 1 /\ fields[1] = Str(<<"M", "S", "H">>)
       THEN Found(fields[2])   \* the encoding characters, not split further
     ELSE
       LET reps == Split(fields[fieldIdx + 1], seg.repeat)
       IN IF repIdx + 1 > Len(reps) THEN OutOfRange("repetition")
          ELSE
            LET comps == Split(reps[repIdx + 1], seg.compSep)
            IN IF compIdx + 1 > Len(comps) THEN OutOfRange("component")
               ELSE
                 LET subs == Split(comps[compIdx + 1], seg.subCompSep)
                 IN IF subCompIdx + 1 > Len(subs)
                      THEN OutOfRange("subcomponent")
                      ELSE Found(Unescape(seg, subs[subCompIdx + 1]))

\* strconv.Atoi on a string of decimal digits.
RECURSIVE Atoi(_)
Atoi(s) ==
  IF Len(s) = 0 THEN 0
  ELSE 10 * Atoi(SubSeq(s, 1, Len(s) - 1)) + (s[Len(s)] - ASCII["0"])

\* NewLocation("TAG.field[.component[.subcomponent]]"), for a well-formed
\* address.
NewLocation(loc) ==
  LET tok == Split(loc, ASCII["."])
  IN [Segment |-> tok[1],
      FieldSeq |-> Atoi(tok[2]),
      Comp |-> IF Len(tok) >= 3 THEN Atoi(tok[3]) ELSE 0,
      SubComp |-> IF Len(tok) >= 4 THEN Atoi(tok[4]) ELSE 0]

(***************************************************************************)
(* Get, Find and Unmarshal.  An outcome is a return (of a value and an     *)
(* error) or a run-time panic.                                             *)
(***************************************************************************)
Returned(val, err) == [kind |-> "return", val |-> val, err |-> err]
Panicked == [kind |-> "panic", val |-> <<>>, err |-> "none"]

\* Get(l): seg[0] of an empty slice is an index-out-of-range panic; the
\* error of GetSubComponent is dropped and GetSegment's (nil) returned.
Get(msg, l) ==
  LET g == GetSegment(msg, l.Segment)
  IN IF g.err # "nil" THEN Returned(<<>>, g.err)
     ELSE IF Len(g.segs) = 0 THEN Panicked
     ELSE Returned(GetSubComponent(g.segs[1], l.FieldSeq, 0, l.Comp,
                                   l.SubComp).text,
                   g.err)

Find(msg, loc) == Get(msg, NewLocation(loc))

\* strings.TrimSpace on a string of single-byte characters.
IsTrimSpace(b) == b \in {9, 10, 11, 12, 13, 32}

RECURSIVE TrimLeft(_)
TrimLeft(s) ==
  IF Len(s) > 0 /\ IsTrimSpace(s[1]) THEN TrimLeft(Tail(s)) ELSE s

RECURSIVE TrimRight(_)
TrimRight(s) ==
  IF Len(s) > 0 /\ IsTrimSpace(s[Len(s)])
    THEN TrimRight(SubSeq(s, 1, Len(s) - 1))
    ELSE s

TrimSpace(s) == TrimRight(TrimLeft(s))

\* Unmarshal's loop from field i on, over the fields of the target (each
\* with its hl7 tag, its value and whether it can be set): the fields
\* after it and how it ended.  A panic of Find leaves the loop.
RECURSIVE UnmarshalFrom(_, _, _)
UnmarshalFrom(msg, it, i) ==
  IF i > Len(it) THEN [it |-> it, kind |-> "return", err |-> "nil"]
  ELSE IF it[i].tag = <<>> THEN UnmarshalFrom(msg, it, i + 1)
  ELSE LET f == Find(msg, it[i].tag)
       IN IF f.kind = "panic" THEN [it |-> it, kind |-> "panic", err |-> "none"]
          ELSE IF f.val # <<>> /\ it[i].canSet
            THEN UnmarshalFrom(msg,
                               [it EXCEPT ![i].val = TrimSpace(f.val)],
                               i + 1)
            ELSE UnmarshalFrom(msg, it, i + 1)

Unmarshal(msg, it) == UnmarshalFrom(msg, it, 1)

(***************************************************************************)
(* Lookups and binding on one Message.                                     *)
(***************************************************************************)
BindSegments ==
  {Str(<<"A">>),
   Str(<<"A", "|", "A">>),
   Str(<<"A", "|", "SP">>),
   Str(<<"A", "|", "SP", "A", "SP">>),
   Str(<<"A", "|", "A", "^", "B">>),
   Str(<<"A", "|", "\\", "F", "\\">>),
   Str(<<"B", "|", "A">>)}

BindBuffers ==
  {Buffer(StdHeader)}
    \cup {Buffer(StdHeader \o <<CR>> \o s) : s \in BindSegments}
    \cup {Buffer(StdHeader \o <<CR>> \o s \o <<CR, LF>> \o t) :
            s, t \in BindSegments}

Addresses ==
  {Str(<<"A", ".", "0">>),
   Str(<<"A", ".", "1">>),
   Str(<<"A", ".", "2">>),
   Str(<<"A", ".", "1", ".", "1">>),
   Str(<<"B", ".", "1">>),
   Str(<<"M", "S", "H", ".", "1">>)}

Old == Str(<<"0">>)

\* A field of a target record: tagged with an address or not, empty or
\* already set, exported (settable) or not.
TargetFields ==
  {[tag |-> a, val |-> v, canSet |-> TRUE] : a \in Addresses, v \in {<<>>, Old}}
    \cup {[tag |-> <<>>, val |-> Old, canSet |-> TRUE],
          [tag |-> Str(<<"A", ".", "1">>), val |-> Old, canSet |-> FALSE]}

Targets == UNION {[1..n -> TargetFields] : n \in 1..MaxFields}

BindInit ==
  /\ data \in BindBuffers
  /\ Fresh

\* A lookup leaves the Message as it is: a lookup made right after another
\* reaches no state of the Message that the first did not, so one lookup
\* is taken per state of the Message.
LookedUp == out.op \in {"Find", "Unmarshal"}

DoFind ==
  /\ built = "nil"
  /\ ~LookedUp
  /\ \E loc \in Addresses :
       out' = [op |-> "Find", loc |-> loc, res |-> Find(m, loc)]
  /\ UNCHANGED <<data, m, built, results, consumed, parses, parseSkip,
                 pc, buf, got, order>>

DoUnmarshal ==
  /\ built = "nil"
  /\ ~LookedUp
  /\ \E it \in Targets :
       out' = [op |-> "Unmarshal", before |-> it, res |-> Unmarshal(m, it)]
  /\ UNCHANGED <<data, m, built, results, consumed, parses, parseSkip,
                 pc, buf, got, order>>

BindNext ==
  \/ Construct
  \/ DoParse
  \/ DoFind
  \/ DoUnmarshal

BindSpec == BindInit /\ [][BindNext]_vars

(***************************************************************************)
(* ReadSegment called by several goroutines on one Message.  Each          *)
(* goroutine is at one of: "idle" (not in a call), "wait" (in a call, at   *)
(* m.lock.Lock()), "loop" (in the for loop, the lock held), "unlock" (at   *)
(* m.lock.Unlock()), "ret" (at the len(buf) test and the return).          *)
(***************************************************************************)
ConcBuffers ==
  {Buffer(h \o b) :
     h \in {StdHeader, OddHeader, BlankHeader},
     b \in {<<>>, <<CR, LF, ASCII["A"]>>, <<ASCII["A"], CR, ASCII["A"]>>}}

\* A bug ReadSegment could have: the lock is not waited for.
LockNotWaitedFor(msg) == TRUE

\* m.lock.Lock() returns once the mutex is free.
LockIsFree(msg) == msg.lock = 0

\* m.lock.Unlock()
Unlocked(msg) == [msg EXCEPT !.lock = 0]

ConcInit ==
  /\ data \in ConcBuffers
  /\ LET r == NewMessage(data)
     IN /\ m = r.msg
        /\ built = r.err
  /\ results = <<>>
  /\ consumed = 0
  /\ parses = 0
  /\ parseSkip = 0
  /\ out = NoOutcome
  /\ Idle

\* The calls begun so far: those that have unlocked, and those under way.
Started ==
  Len(order) + Cardinality({t \in Threads : pc[t] \in {"wait", "loop", "unlock"}})

Call(t) ==
  /\ pc[t] = "idle"
  /\ Started < MaxReads
  /\ buf' = [buf EXCEPT ![t] = <<>>]
  /\ pc' = [pc EXCEPT ![t] = "wait"]
  /\ UNCHANGED <<data, m, built, results, consumed, parses, parseSkip, out,
                 got, order>>

Lock(t) ==
  /\ pc[t] = "wait"
  /\ LockIsFree(m)
  /\ m' = [m EXCEPT !.lock = t]
  /\ pc' = [pc EXCEPT ![t] = "loop"]
  /\ UNCHANGED <<data, built, results, consumed, parses, parseSkip, out,
                 buf, got, order>>

Iterate(t) ==
  /\ pc[t] = "loop"
  /\ LET s == ReadByte(data.bytes, m.reader, buf[t])
     IN /\ m' = [m EXCEPT !.reader = s.pos]
        /\ buf' = [buf EXCEPT ![t] = s.buf]
        /\ pc' = [pc EXCEPT ![t] = IF s.brk THEN "unlock" ELSE "loop"]
  /\ UNCHANGED <<data, built, results, consumed, parses, parseSkip, out,
                 got, order>>

Unlock(t) ==
  /\ pc[t] = "unlock"
  /\ m' = Unlocked(m)
  /\ pc' = [pc EXCEPT ![t] = "ret"]
  /\ order' = Append(order, [by |-> t, res |-> ReadResult(m, buf[t])])
  /\ UNCHANGED <<data, built, results, consumed, parses, parseSkip, out,
                 buf, got>>

Return(t) ==
  /\ pc[t] = "ret"
  /\ got' = [got EXCEPT ![t] = Append(@, ReadResult(m, buf[t]))]
  /\ pc' = [pc EXCEPT ![t] = "idle"]
  /\ UNCHANGED <<data, m, built, results, consumed, parses, parseSkip, out,
                 buf, order>>

ThreadStep(t) ==
  \/ Call(t)
  \/ Lock(t)
  \/ Iterate(t)
  \/ Unlock(t)
  \/ Return(t)

ConcNext == \E t \in Threads : ThreadStep(t)

ConcSpec == ConcInit /\ [][ConcNext]_vars

\* A goroutine inside a call that can take its next step takes it in the
\* end; nothing makes a goroutine begin a call.
CallStep(t) ==
  \/ Lock(t)
  \/ Iterate(t)
  \/ Unlock(t)
  \/ Return(t)

FairConcSpec == ConcSpec /\ \A t \in Threads : WF_vars(CallStep(t))

(***************************************************************************)
(* The segments of a buffer, stated from its lines.                        *)
(***************************************************************************)
Terminators(bytes) == {i \in 1..Len(bytes) : bytes[i] = CR \/ bytes[i] = LF}

Max(S) == CHOOSE x \in S : \A y \in S : y <= x
Min(S) == CHOOSE x \in S : \A y \in S : x <= y

\* The first and the last byte of the CR/LF-delimited line position i is on.
LineFirst(bytes, i) ==
  1 + Max({t \in Terminators(bytes) \cup {0} : t < i})
LineLast(bytes, i) ==
  Min({t \in Terminators(bytes) \cup {Len(bytes) + 1} : t > i}) - 1

\* The positions of the first non-white-space byte of a line.
SegmentStarts(bytes) ==
  {i \in 1..Len(bytes) :
     /\ ~IsSpace(bytes[i])
     /\ \A k \in LineFirst(bytes, i)..(i - 1) : IsSpace(bytes[k])}

RECURSIVE Ascending(_)
Ascending(S) ==
  IF S = {} THEN <<>> ELSE <<Min(S)>> \o Ascending(S \ {Min(S)})

\* Per line with a non-white-space byte, in message order: the line from
\* that byte to its end.
LineSegments(bytes) ==
  LET starts == Ascending(SegmentStarts(bytes))
  IN [k \in 1..Len(starts) |->
        SubSeq(bytes, starts[k], LineLast(bytes, starts[k]))]

\* The segments of the Message built from the buffer.
Expected ==
  LET lines == LineSegments(data.bytes)
  IN [k \in 1..Len(lines) |->
        newSegment(m.fieldSep, m.compSep, m.subCompSep, m.repeat, m.escape,
                   lines[k])]

Drop(s, n) == SubSeq(s, n + 1, Len(s))

WithType(segs, tag) == SelectSeq(segs, LAMBDA g : Type(g) = tag)

\* The tags a lookup is tried with: every type in the message, and some
\* that no segment has.
TagsOf(segs) ==
  {Type(segs[k]) : k \in 1..Len(segs)}
    \cup {Str(<<"B">>), Str(<<"M", "S", "H">>), <<>>}

Tags == TagsOf(Expected)

RECURSIVE SumLen(_, _)
SumLen(msg, tags) ==
  IF tags = {} THEN 0
  ELSE LET t == CHOOSE x \in tags : TRUE
       IN Len(GetSegment(msg, t).segs) + SumLen(msg, tags \ {t})

(***************************************************************************)
(* C1: on a fresh Message (built from at least 8 bytes, no Parse), the     *)
(* successive ReadSegment calls return, in message order, one segment per  *)
(* CR/LF-delimited line that has a non-white-space byte: the line from     *)
(* its first non-white-space byte up to its terminator.  No returned       *)
(* segment is empty, and the calls after the last line return io.EOF.      *)
(***************************************************************************)
ReadSegmentReturnsLines ==
  (built = "nil" /\ parses = 0) =>
    LET expected == Expected
    IN \A i \in 1..Len(results) :
         IF i <= Len(expected)
           THEN /\ results[i].err = "nil"
                /\ results[i].seg = expected[i]
                /\ Len(results[i].seg.data) > 0
           ELSE results[i].err = "EOF"

\* Two segments separated by a CR LF pair, a blank line read over, and the
\* end of the stream reported.
ReadSegmentReturnsLinesWitness ==
  /\ built = "nil" /\ parses = 0
  /\ Len(Expected) >= 2
  /\ Len(results) = Len(Expected) + 1
  /\ \E i \in 1..(Len(data.bytes) - 1) :
       data.bytes[i] = CR /\ data.bytes[i + 1] = LF
  /\ \E i \in 1..Len(data.bytes) : data.bytes[i] = ASCII["SP"]

(***************************************************************************)
(* C2: every ReadSegment call returns a segment or io.EOF, never another   *)
(* error; it returns io.EOF exactly when no non-white-space byte was left  *)
(* to read, so after one io.EOF every later call returns io.EOF; and the   *)
(* returned segments are the bytes of disjoint, ascending stretches of     *)
(* the input: no line is returned by two calls.                            *)
(***************************************************************************)
NothingLeft(from) ==
  \A k \in (from + 1)..Len(data.bytes) : IsSpace(data.bytes[k])

\* The bytes of result r lie inside the stretch of input its call consumed.
WithinItsCall(r) ==
  \E a \in (r.from + 1)..r.to :
    /\ a + Len(r.seg.data) - 1 <= r.to
    /\ r.seg.data = SubSeq(data.bytes, a, a + Len(r.seg.data) - 1)

EOFStaysAndNothingRepeats ==
  built = "nil" =>
    /\ \A i \in 1..Len(results) :
         /\ results[i].err \in {"nil", "EOF"}
         /\ results[i].err = "EOF" <=> NothingLeft(results[i].from)
         /\ results[i].err = "nil" => WithinItsCall(results[i])
         /\ results[i].from <= results[i].to
    /\ \A i, j \in 1..Len(results) :
         i < j =>
           /\ results[i].to <= results[j].from
           /\ results[i].err = "EOF" => results[j].err = "EOF"

\* Two equal lines returned by two calls, then io.EOF twice.
EOFStaysAndNothingRepeatsWitness ==
  /\ built = "nil"
  /\ Len(results) >= 4
  /\ results[1].err = "nil" /\ results[2].err = "nil"
  /\ results[1].seg = results[2].seg
  /\ results[Len(results) - 1].err = "EOF"
  /\ results[Len(results)].err = "EOF"

ShortBufferFails ==
  (built # "none" /\ Len(data.bytes) < 8) =>
    /\ built # "nil"
    /\ m = NilMessage

ShortBufferFailsWitness ==
  /\ built = "EOF"
  /\ Len(data.bytes) = 7

(***************************************************************************)
(* C9: for a buffer of at least 8 bytes NewMessage succeeds, and the       *)
(* field, component, repetition, escape and subcomponent separators are    *)
(* the bytes at offsets 3, 4, 5, 6 and 7.                                  *)
(***************************************************************************)
SeparatorsFromOffsets ==
  (built # "none" /\ Len(data.bytes) >= 8) =>
    /\ built = "nil"
    /\ ~m.isNil
    /\ m.fieldSep = data.bytes[3 + 1]
    /\ m.compSep = data.bytes[4 + 1]
    /\ m.repeat = data.bytes[5 + 1]
    /\ m.escape = data.bytes[6 + 1]
    /\ m.subCompSep = data.bytes[7 + 1]

\* One character in all five roles.
SeparatorsFromOffsetsWitness ==
  /\ built = "nil"
  /\ SubSeq(data.bytes, 1, 8) = DotHeader
  /\ {m.fieldSep, m.compSep, m.repeat, m.escape, m.subCompSep} = {ASCII["."]}

(***************************************************************************)
(* C10: Parse indexes the segments not yet read when it is called: after   *)
(* k segments were read it indexes the others, and after a second Parse    *)
(* GetSegment returns the empty sequence for every tag.                    *)
(***************************************************************************)
ParseIndexesTheRest ==
  (built = "nil" /\ parses >= 1) =>
    LET expected == Expected
        tags == TagsOf(expected)
        rest == Drop(expected, parseSkip)
    IN /\ \A tag \in tags : GetSegment(m, tag).segs = WithType(rest, tag)
       /\ DOMAIN m.segments \subseteq tags
       /\ parses >= 2 => \A tag \in tags : GetSegment(m, tag).segs = <<>>

\* A first segment read, a Parse that indexed the others, and a second
\* Parse.
ParseIndexesTheRestWitness ==
  /\ built = "nil" /\ parses = 2
  /\ Len(results) = 1 /\ results[1].err = "nil"
  /\ Len(Expected) >= 3
  /\ \A tag \in Tags : GetSegment(m, tag).segs = <<>>

\* A Parse after one segment was read, which indexes the other two.
ParseAfterReadWitness ==
  /\ built = "nil" /\ parses = 1
  /\ parseSkip = 1
  /\ Len(Expected) = 3
  /\ SumLen(m, Tags) = 2

(***************************************************************************)
(* C7: with several goroutines calling ReadSegment on one Message, the     *)
(* segments returned, over all callers, are those a single reader gets:    *)
(* in unlock order they are the lines of the buffer, each returned whole   *)
(* to the one goroutine whose call read it, none lost or repeated; the     *)
(* lock is held only inside a call's loop; and every call returns.         *)
(***************************************************************************)
InLock(t) == pc[t] \in {"loop", "unlock"}

\* The outcomes goroutine t was given, as the unlock order has them.
GivenTo(t) ==
  LET mine == SelectSeq(order, LAMBDA e : e.by = t)
  IN [k \in 1..Len(mine) |-> mine[k].res]

ConcurrentReadsConsistent ==
  /\ \A t, u \in Threads : (InLock(t) /\ InLock(u)) => t = u
  /\ \A t \in Threads : InLock(t) <=> m.lock = t
  /\ (\A t \in Threads : ~InLock(t)) => m.lock = 0
  /\ LET expected == Expected
     IN \A i \in 1..Len(order) :
          IF i <= Len(expected)
            THEN order[i].res.err = "nil" /\ order[i].res.seg = expected[i]
            ELSE order[i].res.err = "EOF"
  /\ \A t \in Threads :
       LET given == GivenTo(t)
       IN got[t] = IF pc[t] = "ret"
                     THEN SubSeq(given, 1, Len(given) - 1)
                     ELSE given

ConcurrentReadsSequential ==
  /\ []ConcurrentReadsConsistent
  /\ \A t \in Threads : (pc[t] = "wait") ~> (pc[t] = "idle")

\* All calls have returned, each goroutine was given a segment, and one an
\* io.EOF.
ConcurrentReadsSequentialWitness ==
  /\ \A t \in Threads : pc[t] = "idle"
  /\ Started = MaxReads
  /\ \A t \in Threads : \E k \in 1..Len(got[t]) : got[t][k].err = "nil"
  /\ \E t \in Threads : \E k \in 1..Len(got[t]) : got[t][k].err = "EOF"
  /\ Len(Expected) >= 2

(***************************************************************************)
(* C4: on a materialized Message, Find for a location whose segment tag    *)
(* has no segments returns to its caller with a "not found" error, which   *)
(* a lookup with an index out of range does not give.                      *)
(***************************************************************************)
Materialized == built = "nil" /\ parses >= 1

TagAbsent(loc) == GetSegment(m, NewLocation(loc).Segment).segs = <<>>

AbsentTagIsNotFound ==
  (Materialized /\ out.op = "Find" /\ TagAbsent(out.loc)) =>
    /\ out.res.kind = "return"
    /\ out.res.err # "nil"

(***************************************************************************)
(* C5: when Unmarshal is given a record one of whose fields is tagged      *)
(* with an address whose segment tag is absent from the materialized       *)
(* message, it returns without failing, that field keeps its value, and    *)
(* every other tagged field whose address resolves to a non-empty value    *)
(* is written.                                                             *)
(***************************************************************************)
Tagged(f) == f.tag # <<>>

Resolves(f) ==
  /\ Tagged(f)
  /\ ~TagAbsent(f.tag)
  /\ TrimSpace(Find(m, f.tag).val) # <<>>

AbsentTagLeavesDefault ==
  (Materialized /\ out.op = "Unmarshal"
     /\ \E i \in 1..Len(out.before) :
          Tagged(out.before[i]) /\ TagAbsent(out.before[i].tag)) =>
    /\ out.res.kind = "return"
    /\ out.res.err = "nil"
    /\ \A i \in 1..Len(out.before) :
         LET f == out.before[i]
         IN /\ (Tagged(f) /\ TagAbsent(f.tag)) => out.res.it[i].val = f.val
            /\ (Resolves(f) /\ f.canSet) =>
                 out.res.it[i].val = TrimSpace(Find(m, f.tag).val)

(***************************************************************************)
(* C6: Unmarshal writes a field only when the resolved value, trimmed of   *)
(* leading and trailing white space, is not empty; a field whose resolved  *)
(* value is empty or all white space keeps the value it had.               *)
(***************************************************************************)
BlankValueLeavesField ==
  (Materialized /\ out.op = "Unmarshal") =>
    \A i \in 1..Len(out.before) :
      LET f == out.before[i]
      IN (Tagged(f) /\ ~TagAbsent(f.tag)
            /\ TrimSpace(Find(m, f.tag).val) = <<>>) =>
           out.res.it[i].val = f.val

====
